---------------------------- MODULE Spec2Model ----------------------------
(***************************************************************************)
(* Batch conversion engine of doc_converter (core/batch_processor.py):     *)
(* file enumeration, the ThreadPoolExecutor worker pool, per-file routing  *)
(* (_convert_single_file), result aggregation and progress reporting.      *)
(***************************************************************************)
EXTENDS Integers, Sequences, FiniteSets, TLC

(***************************************************************************)
(* Bounds of the model.                                                    *)
(***************************************************************************)
MaxFiles == 3        \* longest file_list argument of convert_file_list
MaxWorkers == 2      \* largest max_workers given to BatchProcessor
MaxPages == 2        \* most pages the PDF renderer produces for one PDF

(***************************************************************************)
(* Strings the code inspects character by character are sequences of       *)
(* one-character strings.                                                  *)
(***************************************************************************)
LowerChar(c) ==
    CASE c = "D" -> "d" [] c = "O" -> "o" [] c = "C" -> "c" [] c = "X" -> "x"
      [] c = "P" -> "p" [] c = "F" -> "f"
      [] OTHER -> c

\* str.lower()
Lower(s) == [k \in 1..Len(s) |-> LowerChar(s[k])]

\* str.lstrip("."): drops every leading dot
RECURSIVE LStripDot(_)
LStripDot(s) ==
    IF s # <<>> /\ Head(s) = "." THEN LStripDot(Tail(s)) ELSE s

\* input_file.suffix.lower().lstrip(".")
InputExt(input_file) == LStripDot(Lower(input_file.suffix))

E_docx == <<"d", "o", "c", "x">>
E_pptx == <<"p", "p", "t", "x">>
E_txt == <<"t", "x", "t">>
E_html == <<"h", "t", "m", "l">>
E_pdf == <<"p", "d", "f">>
E_xyz == <<"x", "y", "z">>

Dot(e) == <<".">> \o e

(***************************************************************************)
(* The file system the batch runs against.  A path is its parent           *)
(* directory (a tuple of parts), its stem and its suffix.                  *)
(***************************************************************************)
P(parent, stem, suffix) == [parent |-> parent, stem |-> stem, suffix |-> suffix]

InDir == <<"in">>
SubDir == <<"in", "sub">>
NoDir == <<"nodir">>
OutDir == <<"out">>
DocsDir == <<"docs">>

A_docx == P(InDir, "a", Dot(E_docx))
A_txt == P(InDir, "a", Dot(E_txt))
B_pdf == P(InDir, "b", Dot(E_pdf))
Sub_a_docx == P(SubDir, "a", Dot(E_docx))
Sub_b_pdf == P(SubDir, "b", Dot(E_pdf))
Sub_c_pptx == P(SubDir, "c", Dot(E_pptx))
Archive_pdf == P(InDir, "archive", Dot(E_pdf))     \* a directory named archive.pdf
Missing_docx == P(InDir, "missing", Dot(E_docx))   \* not on disk
Docs_a_docx == P(DocsDir, "a", Dot(E_docx))
Docs_b_txt == P(DocsDir, "b", Dot(E_txt))
Docs_c_html == P(DocsDir, "c", Dot(E_html))

RegularFiles ==
    {A_docx, A_txt, B_pdf, Sub_a_docx, Sub_b_pdf, Sub_c_pptx,
     Docs_a_docx, Docs_b_txt, Docs_c_html}
Directories == {Archive_pdf}
DirTree == {InDir, SubDir, DocsDir}

\* Path.exists()
Exists(p) == p \in RegularFiles \union Directories

\* Path.name
Name(p) == <<p.stem, p.suffix>>


(***************************************************************************)
(* Path ordering: pathlib compares the tuples of parts, part by part, and  *)
(* each part as a string, character by character.                          *)
(***************************************************************************)
CharCode(c) ==
    CASE c = "." -> 46 [] c = "0" -> 48 [] c = "1" -> 49 [] c = "2" -> 50
      [] c = "3" -> 51 [] c = "4" -> 52 [] c = "5" -> 53 [] c = "6" -> 54
      [] c = "7" -> 55 [] c = "8" -> 56 [] c = "9" -> 57 [] c = "j" -> 106
      [] c = "C" -> 67 [] c = "D" -> 68 [] c = "F" -> 70
      [] c = "O" -> 79 [] c = "P" -> 80 [] c = "X" -> 88 [] c = "_" -> 95
      [] c = "a" -> 97 [] c = "b" -> 98 [] c = "c" -> 99 [] c = "d" -> 100
      [] c = "e" -> 101 [] c = "f" -> 102 [] c = "g" -> 103 [] c = "h" -> 104
      [] c = "i" -> 105 [] c = "l" -> 108 [] c = "m" -> 109 [] c = "n" -> 110
      [] c = "o" -> 111 [] c = "p" -> 112 [] c = "r" -> 114 [] c = "s" -> 115
      [] c = "t" -> 116 [] c = "u" -> 117 [] c = "v" -> 118 [] c = "x" -> 120
      [] c = "y" -> 121 [] c = "z" -> 122
      [] OTHER -> 0

PartChars(s) ==
    CASE s = "in" -> <<"i", "n">>
      [] s = "sub" -> <<"s", "u", "b">>
      [] s = "out" -> <<"o", "u", "t">>
      [] s = "docs" -> <<"d", "o", "c", "s">>
      [] s = "nodir" -> <<"n", "o", "d", "i", "r">>
      [] s = "a" -> <<"a">>
      [] s = "b" -> <<"b">>
      [] s = "c" -> <<"c">>
      [] s = "archive" -> <<"a", "r", "c", "h", "i", "v", "e">>
      [] s = "missing" -> <<"m", "i", "s", "s", "i", "n", "g">>
      [] s = "page_" -> <<"p", "a", "g", "e", "_">>
      [] s = "_images" -> <<"_", "i", "m", "a", "g", "e", "s">>
      [] s = "jpeg" -> <<"j", "p", "e", "g">>
      [] s = "png" -> <<"p", "n", "g">>
      [] OTHER -> <<s>>

\* str.__lt__
RECURSIVE StrLess(_, _)
StrLess(s, t) ==
    IF t = <<>> THEN FALSE
    ELSE IF s = <<>> THEN TRUE
    ELSE IF CharCode(Head(s)) # CharCode(Head(t))
         THEN CharCode(Head(s)) < CharCode(Head(t))
    ELSE StrLess(Tail(s), Tail(t))

\* Path.parts, each part spelled out
Parts(p) == [k \in 1..Len(p.parent) |-> PartChars(p.parent[k])]
               \o <<PartChars(p.stem) \o p.suffix>>

RECURSIVE PartsLess(_, _)
PartsLess(a, b) ==
    IF b = <<>> THEN FALSE
    ELSE IF a = <<>> THEN TRUE
    ELSE IF Head(a) # Head(b) THEN StrLess(Head(a), Head(b))
    ELSE PartsLess(Tail(a), Tail(b))

\* Path.__lt__
PathLess(p, q) == PartsLess(Parts(p), Parts(q))

\* sorted(...) of a set of paths: the k-th element is the one with k - 1
\* smaller elements
Sorted(S) ==
    [k \in 1..Cardinality(S) |->
        CHOOSE x \in S : Cardinality({y \in S : PathLess(y, x)}) = k - 1]

\* set(list)
ToSet(seq) == {seq[k] : k \in 1..Len(seq)}

(***************************************************************************)
(* _find_files.  A glob pattern is a stem part and a suffix part, each a   *)
(* literal or the wildcard "*".                                            *)
(***************************************************************************)
Pat(stem, suffix) == [stem |-> stem, suffix |-> suffix]
Star == "*"
AnySuffix == <<"*">>      \* the pattern "a.*" is Pat("a", AnySuffix)

DefaultPatterns ==
    << Pat(Star, Dot(E_pdf)), Pat(Star, Dot(E_docx)), Pat(Star, Dot(E_pptx)),
       Pat(Star, Dot(E_txt)), Pat(Star, Dot(E_html)) >>

\* fnmatch of a path's name against one pattern
Match(pattern, p) ==
    /\ pattern.stem = Star \/ pattern.stem = p.stem
    /\ pattern.suffix = AnySuffix \/ pattern.suffix = p.suffix

IsPrefix(d, parent) ==
    /\ Len(d) <= Len(parent)
    /\ SubSeq(parent, 1, Len(d)) = d

\* directory.glob(pattern): entries directly inside the directory
Glob(directory, pattern) ==
    {p \in RegularFiles \union Directories :
        p.parent = directory /\ Match(pattern, p)}

\* directory.rglob(pattern): entries at any depth
RGlob(directory, pattern) ==
    {p \in RegularFiles \union Directories :
        IsPrefix(directory, p.parent) /\ Match(pattern, p)}

\* the list built by the files.extend(...) loop, one pattern after another
RECURSIVE Extended(_, _, _)
Extended(directory, patterns, recursive) ==
    IF patterns = <<>> THEN <<>>
    ELSE (IF recursive THEN Sorted(RGlob(directory, Head(patterns)))
                       ELSE Sorted(Glob(directory, Head(patterns))))
            \o Extended(directory, Tail(patterns), recursive)

\* an Optional[List[str]] argument: None, or a list
None == [is_none |-> TRUE, list |-> <<>>]
Some(list) == [is_none |-> FALSE, list |-> list]

\* _find_files without the set(): a path is listed once per pattern it matches
FindFilesNoDedup(directory, patterns, recursive) ==
    Extended(directory,
             IF patterns.is_none THEN DefaultPatterns ELSE patterns.list,
             recursive)

FindFiles(directory, patterns, recursive) ==
    LET pats == IF patterns.is_none THEN DefaultPatterns ELSE patterns.list
    IN Sorted(ToSet(Extended(directory, pats, recursive)))

(***************************************************************************)
(* Output naming.                                                          *)
(***************************************************************************)
\* A path under the output directory is the tuple of its parts, each part
\* the tuple of the pieces its name is formatted from.
OutputPath(output_dir) == [k \in 1..Len(output_dir) |-> <<output_dir[k]>>]

\* the output named after the whole input name: a.docx.pdf
OutputFileFullName(output_dir, input_file, target_format) ==
    OutputPath(output_dir)
      \o << <<input_file.stem>> \o input_file.suffix \o <<".", target_format>> >>

\* output_dir / f"{input_file.stem}.{target_format}"
OutputFile(output_dir, input_file, target_format) ==
    OutputPath(output_dir) \o << <<input_file.stem, ".", target_format>> >>

\* output_dir / f"{input_file.stem}_images"
FileOutputDir(output_dir, input_file) ==
    OutputPath(output_dir) \o << <<input_file.stem, "_images">> >>

DigitChar(d) ==
    CASE d = 0 -> "0" [] d = 1 -> "1" [] d = 2 -> "2" [] d = 3 -> "3"
      [] d = 4 -> "4" [] d = 5 -> "5" [] d = 6 -> "6" [] d = 7 -> "7"
      [] d = 8 -> "8" [] d = 9 -> "9"

\* decimal digits of n, most significant first
RECURSIVE Digits(_)
Digits(n) ==
    IF n < 10 THEN <<DigitChar(n)>> ELSE Digits(n \div 10) \o <<DigitChar(n % 10)>>

\* the page number written without padding
ZeroPadNone(ds, width) == ds

\* f"{page_num:03d}": zero-padded to at least 3 digits
RECURSIVE ZeroPad(_, _)
ZeroPad(ds, width) ==
    IF Len(ds) >= width THEN ds ELSE ZeroPad(<<"0">> \o ds, width)

PageWidth == 3

\* output_dir / f"page_{page_num:03d}.{format.lower()}"
PageFile(file_output_dir, page_num, format) ==
    file_output_dir
      \o << <<"page_">> \o ZeroPad(Digits(page_num), PageWidth) \o <<".", format>> >>

(***************************************************************************)
(* The converters.  An external renderer either produces its output or     *)
(* fails; `ext` is what the call meets: [ok, pages, office, disk], what    *)
(* the renderer does, what the LibreOffice process does, and the entries   *)
(* under the output directory when the call looks.                         *)
(* Every operator returns [raised, value, invoked, renderer, office,       *)
(* made]: whether it raised, the returned value or the exception, the      *)
(* DocumentConverter operation that was called ("none" if none), the       *)
(* renderer method that operation reached ("none" if none), what the       *)
(* LibreOffice process did ("none" if not run) and the file-system         *)
(* entries created.                                                        *)
(***************************************************************************)
Err(type, about) == [type |-> type, about |-> about]

Raise(type, about, invoked, made) ==
    [raised |-> TRUE, value |-> Err(type, about), invoked |-> invoked,
     renderer |-> "none", office |-> "none", made |-> made]

Return(value, invoked, made) ==
    [raised |-> FALSE, value |-> value, invoked |-> invoked,
     renderer |-> "none", office |-> "none", made |-> made]

\* first_page: int = None, None written 0
NoFirstPage == 0

\* page_num = (first_page or 1) + i, i counted from 0
PageNum(first_page, i) == (IF first_page = 0 THEN 1 ELSE first_page) + i

\* PDFConverter.to_images: one page_NNN file per image of the renderer
ToImagesFrom(pdf_path, output_dir, format, first_page, ext) ==
    LET output_files ==
            [i \in 1..ext.pages |->
                PageFile(output_dir, PageNum(first_page, i - 1), format)]
        r == IF ext.ok
             THEN Return(output_files, "pdf_to_images", ToSet(output_files))
             ELSE Raise("ConversionError", pdf_path, "pdf_to_images", {})
    IN [r EXCEPT !.renderer = "PDFConverter.to_images"]

\* to_images as DocumentConverter.pdf_to_images calls it: first_page = None
ToImages(pdf_path, output_dir, format, ext) ==
    ToImagesFrom(pdf_path, output_dir, format, NoFirstPage, ext)

\* DocumentConverter.pdf_to_images
PdfToImages(pdf_path, output_dir, format, ext) ==
    IF ~Exists(pdf_path) THEN Raise("FileNotFoundError", pdf_path, "pdf_to_images", {})
    ELSE IF format \notin {"jpeg", "png"}
    THEN Raise("ValueError", pdf_path, "pdf_to_images", {})
    ELSE LET r == ToImages(pdf_path, output_dir, format, ext)
         IN [r EXCEPT !.made = @ \union {output_dir}]

\* DOCXConverter.to_html / txt_to_pdf, HTMLConverter.to_pdf: the renderer
\* writes output_path or the call raises
Render(op, renderer, input_path, output_path, ext) ==
    LET r == IF ext.ok THEN Return(output_path, op, {output_path})
             ELSE Raise("ConversionError", input_path, op, {})
    IN [r EXCEPT !.renderer = renderer]

\* what the LibreOffice process does on one run: it exits 0 and has written
\* <outdir>/<stem>.pdf, exits 0 and has written nothing, exits non-zero, or
\* is still running after the 300 s of subprocess.run
OfficeRuns == {"written", "nothing", "nonzero", "timeout"}

\* the messages of the two RuntimeErrors of to_pdf
TimedOut == P(<<>>, "Conversion timed out after 5 minutes", <<>>)
NotCreated == P(<<>>, "PDF was not created", <<>>)

\* DOCXConverter.to_pdf
ToPdf(op, input_path, output_path, ext) ==
    LET output_dir == SubSeq(output_path, 1, Len(output_path) - 1)
        generated_pdf == output_dir \o << <<input_path.stem, ".", "pdf">> >>
        written == IF ext.office = "written" THEN {generated_pdf} ELSE {}
        renamed == generated_pdf # output_path
                     /\ generated_pdf \in ext.disk \union written
        created == IF renamed THEN {output_path} ELSE written
        r == CASE ext.office = "timeout" ->
                    Raise("RuntimeError", TimedOut, op, {output_dir})
               [] ext.office = "nonzero" ->
                    Raise("CalledProcessError", input_path, op, {output_dir})
               [] OTHER ->
                    IF output_path \notin ext.disk \union created
                    THEN Raise("RuntimeError", NotCreated, op,
                               {output_dir} \union written)
                    ELSE Return(output_path, op, {output_dir} \union created)
    IN [r EXCEPT !.renderer = "DOCXConverter.to_pdf", !.office = ext.office]

\* DocumentConverter.docx_to_pdf
DocxToPdf(docx_path, output_path, ext) ==
    IF ~Exists(docx_path) THEN Raise("FileNotFoundError", docx_path, "docx_to_pdf", {})
    ELSE ToPdf("docx_to_pdf", docx_path, output_path, ext)

\* pptx_to_pdf missing from the routing: the pair is refused
PptxRefused(pptx_path, output_path, ext) ==
    Raise("ValueError", pptx_path, "none", {})

\* DocumentConverter.pptx_to_pdf (the office renderer handles PPTX)
PptxToPdf(pptx_path, output_path, ext) ==
    IF ~Exists(pptx_path) THEN Raise("FileNotFoundError", pptx_path, "pptx_to_pdf", {})
    ELSE ToPdf("pptx_to_pdf", pptx_path, output_path, ext)

\* DocumentConverter.txt_to_pdf
TxtToPdf(txt_path, output_path, ext) ==
    IF ~Exists(txt_path) THEN Raise("FileNotFoundError", txt_path, "txt_to_pdf", {})
    ELSE Render("txt_to_pdf", "DOCXConverter.txt_to_pdf", txt_path, output_path, ext)

\* DocumentConverter.html_to_pdf (no existence check: the source may be a URL)
HtmlToPdf(html_source, output_path, ext) ==
    Render("html_to_pdf", "HTMLConverter.to_pdf", html_source, output_path, ext)

\* DocumentConverter.docx_to_html
DocxToHtml(docx_path, output_path, ext) ==
    IF ~Exists(docx_path) THEN Raise("FileNotFoundError", docx_path, "docx_to_html", {})
    ELSE Render("docx_to_html", "DOCXConverter.to_html", docx_path, output_path, ext)

(***************************************************************************)
(* _convert_single_file                                                    *)
(***************************************************************************)
\* where the task writes: the per-input image directory or the output file
WritesTo(input_file, output_dir, target_format) ==
    IF target_format \in {"jpeg", "png"}
    THEN FileOutputDir(output_dir, input_file)
    ELSE OutputFile(output_dir, input_file, target_format)

SingleFile(input_file, target_format, r) ==
    IF r.raised THEN r
    ELSE [r EXCEPT !.value = [input_file |-> input_file, output_file |-> r.value,
                              format |-> target_format, type |-> "single_file"]]

ConvertSingleFile(input_file, output_dir, target_format, ext) ==
    LET input_ext == InputExt(input_file)
    IN IF target_format \in {"jpeg", "png"}
       THEN LET file_output_dir == FileOutputDir(output_dir, input_file)
            IN IF input_ext = E_pdf
               THEN LET r == PdfToImages(input_file, file_output_dir, target_format, ext)
                    IN IF r.raised
                       THEN [r EXCEPT !.made = @ \union {file_output_dir}]
                       ELSE [r EXCEPT
                               !.made = @ \union {file_output_dir},
                               !.value = [input_file |-> input_file,
                                          output_files |-> r.value,
                                          format |-> target_format,
                                          type |-> "multiple_images"]]
               ELSE Raise("ValueError", input_file, "none", {file_output_dir})
       ELSE LET output_file == OutputFile(output_dir, input_file, target_format)
            IN IF target_format = "pdf"
               THEN IF input_ext = E_docx
                    THEN SingleFile(input_file, target_format,
                                    DocxToPdf(input_file, output_file, ext))
                    ELSE IF input_ext = E_pptx
                    THEN SingleFile(input_file, target_format,
                                    PptxToPdf(input_file, output_file, ext))
                    ELSE IF input_ext = E_txt
                    THEN SingleFile(input_file, target_format,
                                    TxtToPdf(input_file, output_file, ext))
                    ELSE IF input_ext = E_html
                    THEN SingleFile(input_file, target_format,
                                    HtmlToPdf(input_file, output_file, ext))
                    ELSE Raise("ValueError", input_file, "none", {})
               ELSE IF target_format = "html"
               THEN IF input_ext = E_docx
                    THEN SingleFile(input_file, target_format,
                                    DocxToHtml(input_file, output_file, ext))
                    ELSE Raise("ValueError", input_file, "none", {})
               ELSE Raise("ValueError", input_file, "none", {})

(***************************************************************************)
(* Configuration (utils/config.py).  A dict is an object with an identity: *)
(* the heap is the sequence of the dicts allocated so far, a dict maps     *)
(* each key to nothing, to an int or to another dict (by identity).        *)
(***************************************************************************)
ConfigKeys == {"output", "conversion", "custom", "image_dpi", "max_workers", "flag"}

Absent == [kind |-> "absent", v |-> 0]
IntValue(n) == [kind |-> "int", v |-> n]
DictRef(d) == [kind |-> "dict", v |-> d]

EmptyDict == [k \in ConfigKeys |-> Absent]

\* the identity of the class attribute Config.DEFAULT_CONFIG; its sections
\* "output" and "conversion" are the dicts 2 and 3
DEFAULT_CONFIG == 1

\* the heap when the class is defined:
\* {"output": {"image_dpi": 200}, "conversion": {"max_workers": 4}}
DefaultHeap ==
    << [EmptyDict EXCEPT !["output"] = DictRef(2), !["conversion"] = DictRef(3)],
       [EmptyDict EXCEPT !["image_dpi"] = IntValue(200)],
       [EmptyDict EXCEPT !["max_workers"] = IntValue(4)] >>

(***************************************************************************)
(* State of one batch call on a BatchProcessor.                            *)
(***************************************************************************)
VARIABLES
    call,             \* the entry point called and its arguments
    max_workers,      \* self.max_workers
    pc,               \* position of the calling thread
    files,            \* the enumerated files (files_to_process / existing_files)
    results,          \* the results dict of _process_files_parallel
    completed_count,  \* the nonlocal counter of update_progress
    progress_lock,    \* self._progress_lock: "free" or "held"
    submitted,        \* number of executor.submit calls made
    fut,              \* the futures, by position in files
    work_queue,       \* the executor's work queue
    ready,            \* worker threads that are not running a work item
    as_finished,      \* as_completed: futures already finished when it was called
    waiter,           \* as_completed: futures finished since, in completion order
    yielded,          \* futures as_completed has yielded
    cur,              \* the future the loop body is handling (0: none)
    calls,            \* invocations of progress_callback, in order
    fs,               \* file-system entries created by the batch
    ret,              \* how the call ended: returned value or raised exception
    heap,             \* the dict objects of the configuration, by identity
    config_data       \* self.config_data of each Config instance: a dict identity

\* the configuration objects (utils/config.py); a batch leaves them alone
config == << heap, config_data >>

vars == << call, max_workers, pc, files, results, completed_count, progress_lock,
           submitted, fut, work_queue, ready,
           as_finished, waiter, yielded, cur, calls, fs, ret, heap, config_data >>

pool == << submitted, fut, work_queue, ready >>
collect == << as_finished, waiter, yielded, cur >>

(***************************************************************************)
(* Inputs.                                                                 *)
(***************************************************************************)
Targets == {"pdf", "jpeg"}

FileAsDir == <<"in", "a.txt">>     \* a regular file given as input_dir

\* input_dir.exists()
DirExists(d) == d \in DirTree \union {FileAsDir}

PatternChoices ==
    { None,
      Some(<< Pat(Star, Dot(E_docx)) >>),
      Some(<< Pat(Star, Dot(E_docx)), Pat("a", AnySuffix) >>),
      Some(<< Pat(Star, Dot(E_pdf)) >>),
      Some(<< Pat(Star, Dot(E_html)) >>) }

ListUniverse == {A_docx, Missing_docx}

\* a list with a missing file among valid ones
MixedList == << Docs_a_docx, Missing_docx, Docs_b_txt >>

RECURSIVE SeqsUpTo(_, _)
SeqsUpTo(S, n) ==
    IF n = 0 THEN {<<>>}
    ELSE LET shorter == SeqsUpTo(S, n - 1)
         IN shorter \union {Append(q, x) : q \in shorter, x \in S}

AllDirectoryCalls ==
    [entry : {"convert_directory"},
     input_dir : {InDir, SubDir, DocsDir, NoDir, FileAsDir},
     file_patterns : PatternChoices, recursive : BOOLEAN, file_list : {<<>>},
     output_dir : {OutDir}, target_format : Targets, has_callback : BOOLEAN]

\* the directory calls that enumerate at most MaxFiles files
DirectoryCalls ==
    {c \in AllDirectoryCalls :
        Len(FindFiles(c.input_dir, c.file_patterns, c.recursive)) <= MaxFiles}

FileListCalls ==
    [entry : {"convert_file_list"}, input_dir : {InDir},
     file_patterns : {None}, recursive : {TRUE},
     file_list : SeqsUpTo(ListUniverse, MaxFiles) \union {MixedList},
     output_dir : {OutDir}, target_format : Targets, has_callback : BOOLEAN]

Unset == [type |-> "unset"]

NoResult ==
    [raised |-> FALSE, value |-> Unset, invoked |-> "none", renderer |-> "none",
     office |-> "none", made |-> {}]
NotEnded == [kind |-> "running", value |-> Unset]

EmptySummary ==
    [total_files |-> 0, successful |-> 0, failed |-> 0, results |-> <<>>, errors |-> <<>>]

Init ==
    /\ call \in DirectoryCalls \union FileListCalls
    /\ max_workers \in 0..MaxWorkers
    /\ pc = "call"
    /\ files = <<>>
    /\ results = EmptySummary
    /\ completed_count = 0
    /\ progress_lock = "free"
    /\ submitted = 0
    /\ fut = <<>>
    /\ work_queue = <<>>
    /\ ready = 0
    /\ as_finished = {}
    /\ waiter = <<>>
    /\ yielded = {}
    /\ cur = 0
    /\ calls = <<>>
    /\ fs = {}
    /\ ret = NotEnded
    /\ heap = DefaultHeap
    /\ config_data = <<>>

Tasks == 1..Len(files)
Running == {i \in 1..Len(fut) : fut[i].state = "running"}
Finished == {i \in 1..Len(fut) : fut[i].state = "finished"}
NumThreads == ready + Cardinality(Running)

(***************************************************************************)
(* _process_files_parallel, lines 177-185: the summary and the counter.    *)
(***************************************************************************)
NewSummary(fs_) ==
    [total_files |-> Len(fs_), successful |-> 0, failed |-> 0,
     results |-> <<>>, errors |-> <<>>]

(***************************************************************************)
(* convert_directory up to the call of _process_files_parallel.            *)
(***************************************************************************)
\* the early return never taken
NoFilesNever(files_to_process) == FALSE

\* if not files_to_process:
NoFiles(files_to_process) == files_to_process = <<>>

ConvertDirectory ==
    /\ pc = "call"
    /\ call.entry = "convert_directory"
    /\ IF ~DirExists(call.input_dir)
       THEN /\ ret' = [kind |-> "raised",
                       value |-> Err("FileNotFoundError", P(call.input_dir, "", <<>>))]
            /\ pc' = "done"
            /\ UNCHANGED << files, results, fs >>
       ELSE LET files_to_process ==
                    FindFiles(call.input_dir, call.file_patterns, call.recursive)
            IN /\ fs' = fs \union {OutputPath(call.output_dir)}
               /\ files' = files_to_process
               /\ IF NoFiles(files_to_process)
                  THEN /\ ret' = [kind |-> "returned", value |-> EmptySummary]
                       /\ pc' = "done"
                       /\ UNCHANGED results
                  ELSE /\ results' = NewSummary(files_to_process)
                       /\ pc' = "executor"
                       /\ UNCHANGED ret
    /\ UNCHANGED << config, call, max_workers, completed_count, progress_lock, pool,
                    collect, calls >>

(***************************************************************************)
(* convert_file_list up to the call of _process_files_parallel.            *)
(***************************************************************************)
\* the list passed on unfiltered
ExistingFilesUnfiltered(file_list) == file_list

\* [Path(f) for f in file_list if Path(f).exists()]
ExistingFiles(file_list) == SelectSeq(file_list, Exists)

ConvertFileList ==
    /\ pc = "call"
    /\ call.entry = "convert_file_list"
    /\ fs' = fs \union {OutputPath(call.output_dir)}
    /\ files' = ExistingFiles(call.file_list)
    /\ results' = NewSummary(files')
    /\ pc' = "executor"
    /\ UNCHANGED << config, call, max_workers, completed_count, progress_lock, pool,
                    collect, calls, ret >>

(***************************************************************************)
(* ThreadPoolExecutor(max_workers=self.max_workers): the constructor       *)
(* raises ValueError when max_workers <= 0.                                *)
(***************************************************************************)
CreateExecutor ==
    /\ pc = "executor"
    /\ IF max_workers <= 0
       THEN /\ ret' = [kind |-> "raised", value |-> Err("ValueError", P(<<>>, "max_workers", <<>>))]
            /\ pc' = "done"
       ELSE /\ pc' = "submit"
            /\ UNCHANGED ret
    /\ UNCHANGED << config, call, max_workers, files, results, completed_count,
                    progress_lock, pool, collect, calls, fs >>

(***************************************************************************)
(* executor.submit(self._convert_single_file, file_path, ...): the work    *)
(* item is queued; if no worker is idle and fewer than max_workers worker  *)
(* threads exist, one more is started.  A worker that has not yet asked    *)
(* for its next item may or may not count as idle.                         *)
(***************************************************************************)
\* one worker thread per submitted task
SpawnPerTask == Len(files)

SpawnLimit == max_workers

Submit ==
    /\ pc = "submit"
    /\ submitted < Len(files)
    /\ submitted' = submitted + 1
    /\ fut' = Append(fut, [state |-> "pending", r |-> NoResult])
    /\ work_queue' = Append(work_queue, submitted + 1)
    /\ \/ /\ NumThreads < SpawnLimit
          /\ ready' = ready + 1
       \/ /\ ready > 0 \/ NumThreads >= SpawnLimit
          /\ UNCHANGED ready
    /\ UNCHANGED << config, call, max_workers, pc, files, results, completed_count,
                    progress_lock, collect, calls, fs, ret >>

(***************************************************************************)
(* Worker threads (concurrent.futures.thread._worker).                     *)
(***************************************************************************)
\* a worker that is not running an item takes the oldest queued one
WorkerTake ==
    /\ ready > 0
    /\ work_queue # <<>>
    /\ ready' = ready - 1
    /\ fut' = [fut EXCEPT ![Head(work_queue)].state = "running"]
    /\ work_queue' = Tail(work_queue)
    /\ UNCHANGED << config, call, max_workers, pc, files, results, completed_count,
                    progress_lock, submitted, collect, calls, fs, ret >>

\* what the external renderer may do on one call
\* (a conversion meets one renderer: a renderer that works, on a PDF of any
\* page count, or one that fails, LibreOffice by a non-zero exit)
Behaviours ==
    [ok : {TRUE}, pages : 1..MaxPages, office : {"written"}]
      \union [ok : {FALSE}, pages : {1}, office : {"nonzero"}]

\* the same with every way LibreOffice can fail
OfficeBehaviours ==
    Behaviours \union [ok : {FALSE}, pages : {1}, office : OfficeRuns \ {"written"}]

\* what a conversion call meets: the renderers' behaviour and the disk
Meets(ext) ==
    [ok |-> ext.ok, pages |-> ext.pages, office |-> ext.office, disk |-> fs]

\* the value of the task: _convert_single_file(file_path, output_dir, target_format)
RunTask(i, ext) ==
    ConvertSingleFile(files[i], call.output_dir, call.target_format, Meets(ext))

\* ReadyAfter with a worker that dies when its work item raises
ReadyAfterDying(n, r) == IF r.raised THEN n ELSE n + 1

\* the worker survives whatever the work item does and asks for the next one
ReadyAfter(n, r) == n + 1

\* FinishWith with the worker thread itself recording the outcome in the
\* summary
FinishRecording(i, behaviours) ==
    /\ i \in Running
    /\ \E ext \in behaviours :
          LET r == RunTask(i, ext)
          IN /\ fut' = [fut EXCEPT ![i] = [state |-> "finished", r |-> r]]
             /\ fs' = fs \union r.made
             /\ ready' = ReadyAfter(ready, r)
             /\ results' =
                   IF r.raised
                   THEN [results EXCEPT
                           !.failed = @ + 1,
                           !.errors = Append(@, [file |-> files[i], error |-> r.value])]
                   ELSE [results EXCEPT
                           !.successful = @ + 1,
                           !.results = Append(@, r.value)]
    /\ waiter' = IF pc \in {"loop", "finally", "update"}
                 THEN Append(waiter, i) ELSE waiter
    /\ UNCHANGED << config, call, max_workers, pc, files, completed_count,
                    progress_lock, submitted, work_queue, as_finished,
                    yielded, cur, calls, ret >>

\* the work item's function returns or raises; the future is set and its
\* waiters are notified
FinishWith(i, behaviours) ==
    /\ i \in Running
    /\ \E ext \in behaviours :
          LET r == RunTask(i, ext)
          IN /\ fut' = [fut EXCEPT ![i] = [state |-> "finished", r |-> r]]
             /\ fs' = fs \union r.made
             /\ ready' = ReadyAfter(ready, r)
    /\ waiter' = IF pc \in {"loop", "finally", "update"}
                 THEN Append(waiter, i) ELSE waiter
    /\ UNCHANGED << config, call, max_workers, pc, files, results, completed_count,
                    progress_lock, submitted, work_queue, as_finished,
                    yielded, cur, calls, ret >>

Finish(i) == FinishWith(i, Behaviours)

(***************************************************************************)
(* for future in as_completed(future_to_file): ...                         *)
(***************************************************************************)
\* as_completed is entered: the futures already finished are set aside and
\* a waiter is installed on the others
AsCompleted ==
    /\ pc = "submit"
    /\ submitted = Len(files)
    /\ as_finished' = Finished
    /\ waiter' = <<>>
    /\ pc' = "loop"
    /\ UNCHANGED << config, call, max_workers, files, results, completed_count,
                    progress_lock, pool, yielded, cur, calls, fs, ret >>

\* the futures as_completed may yield next: those finished at entry in the
\* iteration order of a set, then the others in completion order
NextYield ==
    IF as_finished \ yielded # {} THEN as_finished \ yielded
    ELSE IF waiter # <<>> THEN {Head(waiter)}
    ELSE {}

\* Record with the failure counter left alone
RecordUncounted(summary, file_path, r) ==
    IF r.raised
    THEN [summary EXCEPT
            !.errors = Append(@, [file |-> file_path, error |-> r.value])]
    ELSE [summary EXCEPT
            !.successful = @ + 1,
            !.results = Append(@, r.value)]

\* Record with the failure entry naming the last submitted file
RecordLastFile(summary, file_path, r) ==
    IF r.raised
    THEN [summary EXCEPT
            !.failed = @ + 1,
            !.errors = Append(@, [file |-> files[Len(files)], error |-> r.value])]
    ELSE [summary EXCEPT
            !.successful = @ + 1,
            !.results = Append(@, r.value)]

\* future.result() re-raises the task's exception or returns its value
Record(summary, file_path, r) ==
    IF r.raised
    THEN [summary EXCEPT
            !.failed = @ + 1,
            !.errors = Append(@, [file |-> file_path, error |-> r.value])]
    ELSE [summary EXCEPT
            !.successful = @ + 1,
            !.results = Append(@, r.value)]

\* an except clause that catches ValueError alone
CatchesValueError(e) == e.type = "ValueError"

\* except Exception: the exception classes the clause catches
ExceptionClasses ==
    {"ValueError", "FileNotFoundError", "ConversionError", "RuntimeError",
     "CalledProcessError"}
Catches(e) == e.type \in ExceptionClasses

\* one iteration of the loop, up to the finally clause; an exception the
\* except clause does not catch stays pending through the finally clause
Collect(i) ==
    /\ pc = "loop"
    /\ i \in NextYield
    /\ yielded' = yielded \union {i}
    /\ waiter' = IF i \in as_finished THEN waiter ELSE Tail(waiter)
    /\ cur' = i
    /\ IF fut[i].r.raised /\ ~Catches(fut[i].r.value)
       THEN /\ ret' = [kind |-> "raising", value |-> fut[i].r.value]
            /\ UNCHANGED results
       ELSE /\ results' = Record(results, files[i], fut[i].r)
            /\ UNCHANGED ret
    /\ pc' = "finally"
    /\ UNCHANGED << config, call, max_workers, files, completed_count, progress_lock,
                    pool, as_finished, calls, fs >>

(***************************************************************************)
(* update_progress(file_path.name)                                         *)
(***************************************************************************)
\* update_progress entered without taking the lock
UpdateProgressUnlocked ==
    /\ pc = "finally"
    /\ pc' = "update"
    /\ UNCHANGED << config, call, max_workers, files, results, completed_count,
                    progress_lock, pool, collect, calls, fs, ret >>

\* with self._progress_lock:
UpdateProgressAcquire ==
    /\ pc = "finally"
    /\ progress_lock = "free"
    /\ progress_lock' = "held"
    /\ pc' = "update"
    /\ UNCHANGED << config, call, max_workers, files, results, completed_count, pool,
                    collect, calls, fs, ret >>

\* the counter incremented twice for one completion
IncrementTwice(n) == n + 2

Increment(n) == n + 1

\* the callback given the running count as its total
CallbackArgsNoTotal(count, files_, filename) ==
    [completed |-> count, total |-> count, filename |-> filename]

\* progress_callback(completed_count, len(files), filename)
CallbackArgs(count, files_, filename) ==
    [completed |-> count, total |-> Len(files_), filename |-> filename]

\* completed_count += 1; the callback, if any, is called and returns or
\* raises; the lock is released either way.  An exception of the callback,
\* or one pending from the loop body, leaves the loop.
UpdateProgress ==
    /\ pc = "update"
    /\ completed_count' = Increment(completed_count)
    /\ progress_lock' = "free"
    /\ cur' = 0
    /\ IF call.has_callback
       THEN \E cb_raises \in BOOLEAN :
              /\ calls' = Append(calls,
                                 [args |-> CallbackArgs(completed_count', files,
                                                        Name(files[cur])),
                                  raised |-> cb_raises])
              /\ IF cb_raises
                 THEN /\ pc' = "unwind"
                      /\ ret' = [kind |-> "raising",
                                 value |-> Err("CallbackError", files[cur])]
                 ELSE /\ pc' = IF ret.kind = "raising" THEN "unwind" ELSE "loop"
                      /\ UNCHANGED ret
       ELSE /\ pc' = IF ret.kind = "raising" THEN "unwind" ELSE "loop"
            /\ UNCHANGED << calls, ret >>
    /\ UNCHANGED << config, call, max_workers, files, results, pool, as_finished,
                    waiter, yielded, fs >>

\* as_completed is exhausted: the loop ends
LoopEnd ==
    /\ pc = "loop"
    /\ yielded = Tasks
    /\ pc' = "shutdown"
    /\ UNCHANGED << config, call, max_workers, files, results, completed_count,
                    progress_lock, pool, collect, calls, fs, ret >>

(***************************************************************************)
(* Leaving the with block, normally or by an exception:                    *)
(* executor.shutdown(wait=True) joins the workers, which first run every   *)
(* queued work item.                                                       *)
(***************************************************************************)
\* shutdown(wait=False)
DrainedNoWait == TRUE

Drained == work_queue = <<>> /\ Running = {}

Shutdown ==
    /\ pc \in {"shutdown", "unwind"}
    /\ Drained
    /\ pc' = "done"
    /\ ret' = IF pc = "shutdown"
              THEN [kind |-> "returned", value |-> results]
              ELSE [kind |-> "raised", value |-> ret.value]
    /\ ready' = 0
    /\ UNCHANGED << config, call, max_workers, files, results, completed_count,
                    progress_lock, submitted, fut, work_queue, collect, calls,
                    fs >>

Next ==
    \/ ConvertDirectory
    \/ ConvertFileList
    \/ CreateExecutor
    \/ Submit
    \/ WorkerTake
    \/ \E i \in 1..Len(fut) : Finish(i)
    \/ AsCompleted
    \/ \E i \in 1..Len(fut) : Collect(i)
    \/ UpdateProgressAcquire
    \/ UpdateProgress
    \/ LoopEnd
    \/ Shutdown

Spec == Init /\ [][Next]_vars

\* The threads are scheduled and every conversion call returns or raises:
\* while some step is possible, a step is eventually taken.
FairSpec == Spec /\ WF_vars(Next)

(***************************************************************************)
(* The batch with every failure of the LibreOffice process: conversions to *)
(* pdf, the process timing out or exiting 0 without output included.       *)
(***************************************************************************)
OfficeCalls ==
    {c \in DirectoryCalls \union FileListCalls :
        c.target_format = "pdf" /\ ~c.has_callback}

InitOffice ==
    /\ call \in OfficeCalls
    /\ max_workers \in 1..MaxWorkers
    /\ pc = "call"
    /\ files = <<>>
    /\ results = EmptySummary
    /\ completed_count = 0
    /\ progress_lock = "free"
    /\ submitted = 0
    /\ fut = <<>>
    /\ work_queue = <<>>
    /\ ready = 0
    /\ as_finished = {}
    /\ waiter = <<>>
    /\ yielded = {}
    /\ cur = 0
    /\ calls = <<>>
    /\ fs = {}
    /\ ret = NotEnded
    /\ heap = DefaultHeap
    /\ config_data = <<>>

NextOffice ==
    \/ ConvertDirectory
    \/ ConvertFileList
    \/ CreateExecutor
    \/ Submit
    \/ WorkerTake
    \/ \E i \in 1..Len(fut) : FinishWith(i, OfficeBehaviours)
    \/ AsCompleted
    \/ \E i \in 1..Len(fut) : Collect(i)
    \/ UpdateProgressAcquire
    \/ UpdateProgress
    \/ LoopEnd
    \/ Shutdown

SpecOffice == InitOffice /\ [][NextOffice]_vars

(***************************************************************************)
(* _convert_single_file on its own: one call for every input extension and *)
(* target format.                                                          *)
(***************************************************************************)
AllTargets == {"pdf", "html", "jpeg", "png", "gif", "docx"}

RouteSuffixes ==
    { Dot(E_docx), Dot(E_pptx), Dot(E_txt), Dot(E_html), Dot(E_pdf), Dot(E_xyz),
      <<".", "D", "O", "C", "X">>, <<".", "P", "D", "F">>, <<>> }

RouteInputs ==
    RegularFiles \union Directories \union {P(InDir, "a", x) : x \in RouteSuffixes}

InitRoute ==
    /\ call \in [entry : {"_convert_single_file"}, input_dir : {InDir},
                 file_patterns : {None}, recursive : {FALSE}, file_list : {<<>>},
                 output_dir : {OutDir}, target_format : AllTargets,
                 has_callback : {FALSE}]
    /\ files \in {<<f>> : f \in RouteInputs}
    /\ max_workers = 1
    /\ pc = "route"
    /\ results = EmptySummary
    /\ completed_count = 0
    /\ progress_lock = "free"
    /\ submitted = 0
    /\ fut = <<>>
    /\ work_queue = <<>>
    /\ ready = 0
    /\ as_finished = {}
    /\ waiter = <<>>
    /\ yielded = {}
    /\ cur = 0
    /\ calls = <<>>
    /\ fs = {}
    /\ ret = NotEnded
    /\ heap = DefaultHeap
    /\ config_data = <<>>

ConvertOne ==
    /\ pc = "route"
    /\ \E ext \in OfficeBehaviours :
          LET r == RunTask(1, ext)
          IN /\ fut' = <<[state |-> "finished", r |-> r]>>
             /\ fs' = fs \union r.made
    /\ pc' = "routed"
    /\ UNCHANGED << config, call, max_workers, files, results, completed_count,
                    progress_lock, submitted, work_queue, ready, collect, calls,
                    ret >>

NextRoute == ConvertOne

SpecRoute == InitRoute /\ [][NextRoute]_vars

(***************************************************************************)
(* File discovery on its own: convert_directory up to the end of           *)
(* _find_files, for every directory, pattern list and recursive flag.      *)
(***************************************************************************)
FindPatternChoices ==
    PatternChoices \union
    { Some(<<>>),
      Some(<< Pat("a", AnySuffix) >>),
      Some(<< Pat("b", AnySuffix), Pat("a", AnySuffix) >>),
      Some(<< Pat(Star, Dot(E_docx)), Pat(Star, Dot(E_docx)) >>),
      Some(<< Pat(Star, Dot(E_txt)), Pat(Star, Dot(E_pdf)), Pat("a", AnySuffix) >>) }

FindCalls ==
    [entry : {"convert_directory"},
     input_dir : {InDir, SubDir, DocsDir, NoDir, FileAsDir},
     file_patterns : FindPatternChoices, recursive : BOOLEAN, file_list : {<<>>},
     output_dir : {OutDir}, target_format : Targets, has_callback : {FALSE}]

InitFind ==
    /\ call \in FindCalls
    /\ max_workers = 1
    /\ pc = "call"
    /\ files = <<>>
    /\ results = EmptySummary
    /\ completed_count = 0
    /\ progress_lock = "free"
    /\ submitted = 0
    /\ fut = <<>>
    /\ work_queue = <<>>
    /\ ready = 0
    /\ as_finished = {}
    /\ waiter = <<>>
    /\ yielded = {}
    /\ cur = 0
    /\ calls = <<>>
    /\ fs = {}
    /\ ret = NotEnded
    /\ heap = DefaultHeap
    /\ config_data = <<>>

NextFind == ConvertDirectory

SpecFind == InitFind /\ [][NextFind]_vars

(***************************************************************************)
(* Page images on their own: one PDF converted to images, by the task of a *)
(* batch or by a direct call of to_images with a first page, for page      *)
(* counts around the claim's example and around every power of ten up to   *)
(* the padding width.                                                      *)
(***************************************************************************)
MaxFewPages == 12

RECURSIVE Pow10(_)
Pow10(k) == IF k = 0 THEN 1 ELSE 10 * Pow10(k - 1)

PageCounts ==
    1..MaxFewPages \union {Pow10(k) + d : k \in 1..PageWidth, d \in {-1, 0, 1}}

FirstPages == {NoFirstPage, 1, MaxFewPages}

PageCalls ==
    [entry : {"_convert_single_file"}, output_dir : {OutDir},
     target_format : {"jpeg", "png"}, first_page : {NoFirstPage},
     pages : PageCounts]
      \union
    [entry : {"to_images"}, output_dir : {OutDir},
     target_format : {"jpeg", "png"}, first_page : FirstPages,
     pages : PageCounts]

InitPages ==
    /\ call \in PageCalls
    /\ files = <<B_pdf>>
    /\ max_workers = 1
    /\ pc = "page"
    /\ results = EmptySummary
    /\ completed_count = 0
    /\ progress_lock = "free"
    /\ submitted = 0
    /\ fut = <<>>
    /\ work_queue = <<>>
    /\ ready = 0
    /\ as_finished = {}
    /\ waiter = <<>>
    /\ yielded = {}
    /\ cur = 0
    /\ calls = <<>>
    /\ fs = {}
    /\ ret = NotEnded
    /\ heap = DefaultHeap
    /\ config_data = <<>>

\* the renderer returns call.pages images
RendersPages ==
    [ok |-> TRUE, pages |-> call.pages, office |-> "written", disk |-> fs]

\* the task of a batch: _convert_single_file(b.pdf, output_dir, target_format)
ConvertPdfTask ==
    /\ pc = "page"
    /\ call.entry = "_convert_single_file"
    /\ LET r == ConvertSingleFile(files[1], call.output_dir, call.target_format,
                                  RendersPages)
       IN /\ fut' = <<[state |-> "finished", r |-> [r EXCEPT !.value = @.output_files]]>>
          /\ fs' = fs \union r.made
    /\ pc' = "paged"
    /\ UNCHANGED << config, call, max_workers, files, results, completed_count,
                    progress_lock, submitted, work_queue, ready, collect, calls,
                    ret >>

\* a direct call: to_images(b.pdf, <output_dir>/b_images, format, first_page=...)
ToImagesCall ==
    /\ pc = "page"
    /\ call.entry = "to_images"
    /\ LET r == ToImagesFrom(files[1], FileOutputDir(call.output_dir, files[1]),
                             call.target_format, call.first_page, RendersPages)
       IN /\ fut' = <<[state |-> "finished", r |-> r]>>
          /\ fs' = fs \union r.made
    /\ pc' = "paged"
    /\ UNCHANGED << config, call, max_workers, files, results, completed_count,
                    progress_lock, submitted, work_queue, ready, collect, calls,
                    ret >>

NextPages == ConvertPdfTask \/ ToImagesCall

SpecPages == InitPages /\ [][NextPages]_vars

(***************************************************************************)
(* Properties of the batch.                                                *)
(***************************************************************************)
Returned == ret.kind = "returned"
Raised == ret.kind = "raised"

RaisedTasks == {i \in Tasks : fut[i].r.raised}
SucceededTasks == {i \in Tasks : ~fut[i].r.raised}

\* C1: the returned summary satisfies successful + failed = total_files,
\* successful = len(results), failed = len(errors); total_files is the number
\* of files enumerated before any task was submitted and is the same in
\* every state of the run.
C1_SummaryCounts ==
    /\ results.total_files = Len(files)
    /\ submitted <= results.total_files
    /\ Returned =>
         /\ ret.value.successful + ret.value.failed = ret.value.total_files
         /\ ret.value.successful = Len(ret.value.results)
         /\ ret.value.failed = Len(ret.value.errors)
         /\ ret.value.total_files = Len(files)

C1_Witness ==
    /\ Returned
    /\ max_workers >= 2
    /\ ret.value.total_files = 3
    /\ ret.value.successful >= 1
    /\ ret.value.failed >= 1

\* C2: in the returned summary every enumerated input path appears, across
\* results[*].input_file and errors[*].file, exactly as many times as it was
\* enumerated; every error entry is a {file, error} pair naming the input of
\* a task that raised, with that task's exception.
C2_OneOutcomePerTask ==
    Returned =>
      LET s == ret.value
          InResults(q) == {k \in 1..Len(s.results) : s.results[k].input_file = q}
          InErrors(q) == {k \in 1..Len(s.errors) : s.errors[k].file = q}
      IN /\ \A q \in ToSet(files) :
              /\ Cardinality(InResults(q)) =
                   Cardinality({i \in SucceededTasks : files[i] = q})
              /\ Cardinality(InErrors(q)) =
                   Cardinality({i \in RaisedTasks : files[i] = q})
         /\ \A k \in 1..Len(s.results) : s.results[k].input_file \in ToSet(files)
         /\ \A k \in 1..Len(s.errors) :
              /\ DOMAIN s.errors[k] = {"file", "error"}
              /\ \E i \in RaisedTasks :
                   files[i] = s.errors[k].file /\ fut[i].r.value = s.errors[k].error

C2_Witness ==
    /\ Returned
    /\ Len(files) = 3
    /\ files[1] = files[2]
    /\ 1 \in RaisedTasks
    /\ 2 \in SucceededTasks
    /\ ret.value.failed >= 1

\* C3: a task that raises becomes a failure entry of that task only: the
\* worker pool keeps a live worker for every queued task, and in the
\* returned summary every task has finished and is recorded with its own
\* outcome, the other tasks' successes included.
C3_FaultIsolation ==
    /\ (work_queue # <<>> /\ max_workers >= 1) => NumThreads >= 1
    /\ Returned =>
         /\ \A i \in Tasks : fut[i].state = "finished"
         /\ \A i \in SucceededTasks :
              \E k \in 1..Len(ret.value.results) : ret.value.results[k] = fut[i].r.value
         /\ \A i \in RaisedTasks :
              \E k \in 1..Len(ret.value.errors) :
                 ret.value.errors[k] = [file |-> files[i], error |-> fut[i].r.value]
         /\ ret.value.failed = Cardinality(RaisedTasks)
         /\ ret.value.successful = Cardinality(SucceededTasks)

\* the first task raised, the tasks queued behind it on the only worker ran
\* and succeeded
C3_Witness ==
    /\ Returned
    /\ max_workers = 1
    /\ Len(files) = 3
    /\ RaisedTasks = {1}
    /\ ret.value.successful = 2

NoCallbackRaised == \A k \in 1..Len(calls) : ~calls[k].raised
Enumerated == call.entry = "convert_file_list" \/ DirExists(call.input_dir)

C4_EndsByReturn ==
    /\ (pc = "done" /\ Enumerated /\ max_workers >= 1 /\ NoCallbackRaised) =>
          (Returned /\ ret.value = results)
    /\ (Enumerated /\ ret.kind \in {"raising", "raised"}) =>
          \/ ret.value.type = "CallbackError"
          \/ ret.value.type = "ValueError" /\ max_workers <= 0 /\ fut = <<>>

\* C4: once the files are enumerated, the call ends, and it ends by
\* returning the summary: no exception of a task reaches the caller,
\* whatever each task did, every task failing included.  (The worker count
\* is valid and the progress callback, if any, returns.)
C4_AlwaysReturns == []C4_EndsByReturn /\ <>(pc = "done")

\* every task of a three-file batch failed, one in the renderer, and the
\* summary came back
C4_Witness ==
    /\ Returned
    /\ Len(files) = 3
    /\ ret.value.failed = 3
    /\ ret.value.successful = 0
    /\ \E i \in Tasks : fut[i].r.value.type = "ConversionError"

C5_Range ==
    /\ 0 <= completed_count
    /\ completed_count <= results.total_files
    /\ completed_count = Cardinality(yielded \ {cur})
    /\ Returned => completed_count = ret.value.total_files

C5_Step ==
    completed_count' # completed_count =>
        /\ completed_count' = completed_count + 1
        /\ pc = "update"
        /\ cur \in Tasks
        /\ cur' = 0

\* C5: in every state 0 <= completed_count <= total_files; the counter
\* never decreases, changes only by the +1 of the update_progress call that
\* ends one task's loop iteration, counts exactly the iterations ended, and
\* equals total_files when the batch returns.
C5_ProgressCounter == []C5_Range /\ [][C5_Step]_vars

C5_Witness ==
    /\ Returned
    /\ completed_count = 3
    /\ RaisedTasks # {}
    /\ SucceededTasks # {}

NamesOfFiles == {Name(files[i]) : i \in Tasks}

\* C6: whatever the worker count, a returned batch of N tasks has called the
\* callback exactly N times, with completed = 1, 2, ..., N in that order,
\* total = N every time, and each task's file name as often as the task
\* occurs; the final counts are the numbers of tasks that succeeded and
\* that raised.
C6_WorkerCountInvariance ==
    /\ \A k \in 1..Len(calls) :
          /\ calls[k].args.completed = k
          /\ calls[k].args.total = Len(files)
          /\ calls[k].args.filename \in NamesOfFiles
    /\ ~call.has_callback => calls = <<>>
    /\ Returned =>
          /\ call.has_callback => Len(calls) = Len(files)
          /\ call.has_callback =>
                \A nm \in NamesOfFiles :
                   Cardinality({k \in 1..Len(calls) : calls[k].args.filename = nm})
                     = Cardinality({i \in Tasks : Name(files[i]) = nm})
          /\ ret.value.successful = Cardinality(SucceededTasks)
          /\ ret.value.failed = Cardinality(RaisedTasks)

\* two workers, three tasks, and the first callback names another file
\* than the first submitted one
C6_Witness ==
    /\ Returned
    /\ call.has_callback
    /\ max_workers = 2
    /\ Len(files) = 3
    /\ Len(calls) = 3
    /\ calls[1].args.filename # Name(files[1])

\* C7: when the call has ended, by return or by an exception, every
\* submitted task has finished: none is queued or executing.
C7_PoolDrained ==
    pc = "done" =>
        /\ work_queue = <<>>
        /\ Running = {}
        /\ \A i \in 1..Len(fut) : fut[i].state = "finished"

\* the callback raised on the first completion; the two other tasks had
\* finished by the time the exception reached the caller
C7_Witness ==
    /\ pc = "done"
    /\ Raised
    /\ Len(fut) = 3
    /\ Cardinality(yielded) = 1
    /\ \A i \in 1..Len(fut) : fut[i].state = "finished"

\* C8: at every instant at most max_workers conversions are executing.
C8_AtMostMaxWorkers ==
    /\ Cardinality(Running) <= max_workers
    /\ NumThreads <= max_workers

\* both workers busy while a third task waits in the queue
C8_Witness ==
    /\ max_workers = 2
    /\ Cardinality(Running) = 2
    /\ work_queue # <<>>

\* C9: two tasks with distinct input paths never write the same output
\* file or image directory while both are running.
C9_DistinctOutputs ==
    \A i, j \in Running :
        (i # j /\ files[i] # files[j]) =>
            WritesTo(files[i], call.output_dir, call.target_format)
              # WritesTo(files[j], call.output_dir, call.target_format)

(***************************************************************************)
(* The routing table of the conversion router.                             *)
(***************************************************************************)
RoutingTable(e, t) ==
    CASE t = "pdf" /\ e = E_docx -> "docx_to_pdf"
      [] t = "pdf" /\ e = E_pptx -> "pptx_to_pdf"
      [] t = "pdf" /\ e = E_txt -> "txt_to_pdf"
      [] t = "pdf" /\ e = E_html -> "html_to_pdf"
      [] t = "html" /\ e = E_docx -> "docx_to_html"
      [] t \in {"jpeg", "png"} /\ e = E_pdf -> "pdf_to_images"
      [] OTHER -> "unsupported"

RendererOf(op) ==
    CASE op \in {"docx_to_pdf", "pptx_to_pdf"} -> "DOCXConverter.to_pdf"
      [] op = "txt_to_pdf" -> "DOCXConverter.txt_to_pdf"
      [] op = "html_to_pdf" -> "HTMLConverter.to_pdf"
      [] op = "docx_to_html" -> "DOCXConverter.to_html"
      [] op = "pdf_to_images" -> "PDFConverter.to_images"

\* C10: for every (input extension, target format) pair the task calls the
\* operation of the routing table, pptx and docx reaching the same office
\* renderer and pdf to jpeg/png giving the multi-image result; every pair
\* outside the table raises the unsupported-conversion error with no
\* converter called.
C10_Routing ==
    pc = "routed" =>
        LET r == fut[1].r
            want == RoutingTable(InputExt(files[1]), call.target_format)
        IN IF want = "unsupported"
           THEN /\ r.raised
                /\ r.value.type = "ValueError"
                /\ r.invoked = "none"
                /\ r.renderer = "none"
           ELSE /\ r.invoked = want
                /\ r.renderer \in {"none", RendererOf(want)}
                /\ (Exists(files[1]) \/ want = "html_to_pdf") =>
                       r.renderer = RendererOf(want)
                /\ ~r.raised =>
                      r.value.type = IF want = "pdf_to_images"
                                     THEN "multiple_images" ELSE "single_file"

\* an existing pptx converted to pdf by the office renderer
C10_Witness ==
    /\ pc = "routed"
    /\ files[1] = Sub_c_pptx
    /\ call.target_format = "pdf"
    /\ ~fut[1].r.raised
    /\ fut[1].r.renderer = "DOCXConverter.to_pdf"
    /\ fut[1].r.value.type = "single_file"

(***************************************************************************)
(* Missing inputs, bad directories, bad worker counts.                     *)
(***************************************************************************)
ListCall == call.entry = "convert_file_list"
DirectoryCall == call.entry = "convert_directory"

ListedExisting == {k \in 1..Len(call.file_list) : Exists(call.file_list[k])}
ListedMissing == {k \in 1..Len(call.file_list) : ~Exists(call.file_list[k])}

C13_RejectsNonDirectory ==
    (DirectoryCall /\ pc # "call") =>
        IF call.input_dir \in DirTree
        THEN OutputPath(call.output_dir) \in fs
        ELSE /\ pc = "done"
             /\ Raised
             /\ ret.value.type = "FileNotFoundError"
             /\ files = <<>>
             /\ fut = <<>>
             /\ calls = <<>>
             /\ fs = {}

\* C14: a call on a processor with max_workers <= 0 ends with a
\* configuration error raised to the caller before any task runs, and
\* returns no summary, a batch with no file to process included.
C14_RejectsBadWorkerCount ==
    (max_workers <= 0 /\ pc = "done" /\ Enumerated) =>
        /\ Raised
        /\ ret.value.type = "ValueError"
        /\ fut = <<>>

(***************************************************************************)
(* File discovery.                                                         *)
(***************************************************************************)
\* C15: for every directory, pattern list and recursive flag the enumerated
\* list holds exactly the paths that match at least one pattern (at any
\* depth when recursive, directly inside the directory when not), each
\* once, in strictly ascending path order (so the list is the same on
\* every call); with no patterns the five default patterns are used.
C15_Discovery ==
    (DirectoryCall /\ DirExists(call.input_dir) /\ pc # "call") =>
        LET pats == IF call.file_patterns.is_none
                    THEN << Pat("*", <<".", "p", "d", "f">>),
                            Pat("*", <<".", "d", "o", "c", "x">>),
                            Pat("*", <<".", "p", "p", "t", "x">>),
                            Pat("*", <<".", "t", "x", "t">>),
                            Pat("*", <<".", "h", "t", "m", "l">>) >>
                    ELSE call.file_patterns.list
            Inside(p) == IF call.recursive
                         THEN IsPrefix(call.input_dir, p.parent)
                         ELSE p.parent = call.input_dir
            matching == {p \in RegularFiles \union Directories :
                            Inside(p) /\ \E k \in 1..Len(pats) : Match(pats[k], p)}
        IN /\ ToSet(files) = matching
           /\ Len(files) = Cardinality(matching)
           /\ \A i, j \in 1..Len(files) : i < j => PathLess(files[i], files[j])

\* C16: when nothing under an existing input_dir matches the patterns,
\* convert_directory returns the summary {total_files: 0, successful: 0,
\* failed: 0, results: [], errors: []}: it does not raise, submits no task
\* and does not call the progress callback.
C16_ZeroMatches ==
    (DirectoryCall /\ DirExists(call.input_dir) /\ pc # "call" /\ files = <<>>) =>
        /\ pc = "done"
        /\ Returned
        /\ ret.value = [total_files |-> 0, successful |-> 0, failed |-> 0,
                        results |-> <<>>, errors |-> <<>>]
        /\ submitted = 0
        /\ fut = <<>>
        /\ calls = <<>>
        /\ completed_count = 0

\* no *.html under in/, a callback was given
C16_Witness ==
    /\ DirectoryCall
    /\ call.input_dir = InDir
    /\ call.file_patterns = Some(<< Pat(Star, Dot(E_html)) >>)
    /\ call.has_callback
    /\ max_workers = 2
    /\ Returned
    /\ ret.value.total_files = 0

\* a.docx matches both patterns and is listed once, before a.txt and
\* sub/a.docx
C15_Witness ==
    /\ pc # "call"
    /\ call.input_dir = InDir
    /\ call.recursive
    /\ call.file_patterns = Some(<< Pat(Star, Dot(E_docx)), Pat("a", AnySuffix) >>)
    /\ files = << A_docx, A_txt, Sub_a_docx >>

(***************************************************************************)
(* Progress reporting.                                                     *)
(***************************************************************************)
C19_LockHeldInUpdate ==
    /\ progress_lock = "held" <=> pc = "update"
    /\ pc = "update" => cur \in Tasks

C19_Step ==
    /\ completed_count' # completed_count =>
          /\ progress_lock = "held"
          /\ progress_lock' = "free"
          /\ call.has_callback => calls' # calls
    /\ calls' # calls =>
          /\ progress_lock = "held"
          /\ progress_lock' = "free"
          /\ Len(calls') = Len(calls) + 1
          /\ SubSeq(calls', 1, Len(calls)) = calls
          /\ completed_count' = completed_count + 1
          /\ calls'[Len(calls')].args.completed = completed_count'

\* C19: the progress lock is held exactly while update_progress runs, by
\* the one thread that runs it; the counter is incremented and the
\* callback called with the incremented value in one step taken under the
\* lock, one callback at a time, while conversions go on in the workers.
C19_CallbacksSerialized == []C19_LockHeldInUpdate /\ [][C19_Step]_vars

\* the second callback is about to be made under the lock while another
\* conversion is running
C19_Witness ==
    /\ call.has_callback
    /\ max_workers = 2
    /\ pc = "update"
    /\ progress_lock = "held"
    /\ Len(calls) = 1
    /\ completed_count = 1
    /\ Running # {}

(***************************************************************************)
(* Output naming.                                                          *)
(***************************************************************************)
DocsScenario ==
    /\ DirectoryCall
    /\ call.input_dir = DocsDir
    /\ call.file_patterns = None
    /\ call.target_format = "pdf"
    /\ max_workers = 2

\* C17: a single-output conversion that succeeds returns an entry of type
\* single_file whose path is <output_dir>/<input_stem>.<target_format>, and
\* the file is there; the directory of a.docx, b.txt and c.html converted
\* to pdf with two workers, all conversions succeeding, returns
\* total_files = 3, successful = 3, failed = 0 and the three distinct
\* outputs a.pdf, b.pdf, c.pdf.
C17_SingleOutputNaming ==
    /\ \A i \in 1..Len(fut) :
          LET r == fut[i].r
              n == Len(call.output_dir)
          IN (fut[i].state = "finished" /\ ~r.raised
                 /\ call.target_format \notin {"jpeg", "png"}) =>
               /\ r.value.type = "single_file"
               /\ r.value.input_file = files[i]
               /\ r.value.format = call.target_format
               /\ Len(r.value.output_file) = n + 1
               /\ \A k \in 1..n : r.value.output_file[k] = <<call.output_dir[k]>>
               /\ r.value.output_file[n + 1] =
                     <<files[i].stem, ".", call.target_format>>
               /\ r.value.output_file \in fs
    /\ (DocsScenario /\ Returned /\ RaisedTasks = {}) =>
          LET s == ret.value
              outputs == {s.results[k].output_file : k \in 1..Len(s.results)}
          IN /\ s.total_files = 3
             /\ s.successful = 3
             /\ s.failed = 0
             /\ outputs = { << <<"out">>, <<"a", ".", "pdf">> >>,
                            << <<"out">>, <<"b", ".", "pdf">> >>,
                            << <<"out">>, <<"c", ".", "pdf">> >> }
             /\ outputs \subseteq fs

\* the scenario, returned with three successes
C17_Witness ==
    /\ DocsScenario
    /\ Returned
    /\ ret.value.successful = 3
    /\ Cardinality({ret.value.results[k].output_file : k \in 1..3}) = 3

(***************************************************************************)
(* Page image naming.                                                      *)
(***************************************************************************)
\* the characters of a file name given as its pieces
RECURSIVE NameChars(_)
NameChars(pieces) ==
    IF pieces = <<>> THEN <<>> ELSE PartChars(Head(pieces)) \o NameChars(Tail(pieces))

\* the number a string of decimal digits reads as
RECURSIVE DigitsValue(_)
DigitsValue(ds) ==
    IF ds = <<>> THEN 0
    ELSE 10 * DigitsValue(SubSeq(ds, 1, Len(ds) - 1))
           + (CHOOSE d \in 0..9 : DigitChar(d) = ds[Len(ds)])

ImageNames == fut[1].r.value
ImageName(i) == ImageNames[i][Len(ImageNames[i])]
FirstConverted == IF call.first_page = 0 THEN 1 ELSE call.first_page
LastConverted == FirstConverted + call.pages - 1

\* the names of consecutive pages ascend as strings
LexOrderIsPageOrder ==
    \A i \in 1..(Len(ImageNames) - 1) :
        StrLess(NameChars(ImageName(i)), NameChars(ImageName(i + 1)))

\* page names under <output_dir>/<stem>_images/, page_NNN.<ext>, one per
\* page, numbered from the first converted page, at least three digits
PageNamesWellFormed ==
    /\ Len(ImageNames) = call.pages
    /\ \A i \in 1..Len(ImageNames) :
          LET name == ImageName(i)
              ds == SubSeq(name, 2, Len(name) - 2)
          IN /\ ImageNames[i] \in fs
             /\ SubSeq(ImageNames[i], 1, Len(ImageNames[i]) - 1)
                   = << <<"out">>, <<files[1].stem, "_images">> >>
             /\ name[1] = "page_"
             /\ name[Len(name) - 1] = "."
             /\ name[Len(name)] = call.target_format
             /\ DigitsValue(ds) = FirstConverted + i - 1
             /\ Len(ds) >= 3
             /\ Len(ds) > 3 => ds[1] # "0"

\* C18 as stated: for every page count the lexicographic order of the
\* produced names is the page order.
C18_LexOrderForEveryPageCount ==
    pc = "paged" => (PageNamesWellFormed /\ LexOrderIsPageOrder)

\* C18, amended: the images are <output_dir>/<stem>_images/page_NNN.<ext>,
\* one per page, numbered from the first converted page, zero-padded to at
\* least 3 digits; the lexicographic order of the names is the page order
\* as long as no page number exceeds 999, and is not when the pages go
\* from below 1000 to 1000 or beyond.
C18_PageNaming ==
    pc = "paged" =>
        /\ PageNamesWellFormed
        /\ LastConverted < Pow10(PageWidth) => LexOrderIsPageOrder
        /\ (FirstConverted < Pow10(PageWidth) /\ LastConverted >= Pow10(PageWidth))
              => ~LexOrderIsPageOrder

\* the 12-page PDF: page_001.jpeg ... page_012.jpeg
C18_Witness ==
    /\ pc = "paged"
    /\ call.entry = "_convert_single_file"
    /\ call.pages = 12
    /\ call.target_format = "jpeg"
    /\ ImageName(1) = <<"page_", "0", "0", "1", ".", "jpeg">>
    /\ ImageName(12) = <<"page_", "0", "1", "2", ".", "jpeg">>
    /\ LexOrderIsPageOrder

(***************************************************************************)
(* Failures of the office renderer.                                        *)
(***************************************************************************)
OfficeFailed(i) ==
    /\ fut[i].state = "finished"
    /\ fut[i].r.renderer = "DOCXConverter.to_pdf"
    /\ fut[i].r.office \in {"timeout", "nonzero", "nothing"}

\* C20: a LibreOffice run that times out makes to_pdf raise the
\* RuntimeError of the timeout, a non-zero exit CalledProcessError, an exit
\* 0 without the output RuntimeError; in a returned batch each such task
\* is a failure entry of its file.
C20_OfficeFailuresSignalled ==
    /\ \A i \in 1..Len(fut) :
          OfficeFailed(i) =>
             LET r == fut[i].r
             IN /\ r.raised
                /\ r.office = "timeout" => r.value = Err("RuntimeError", TimedOut)
                /\ r.office = "nonzero" => r.value.type = "CalledProcessError"
                /\ r.office = "nothing" => r.value.type = "RuntimeError"
    /\ Returned =>
          \A i \in 1..Len(fut) :
             OfficeFailed(i) =>
                \E k \in 1..Len(ret.value.errors) :
                   ret.value.errors[k] = [file |-> files[i], error |-> fut[i].r.value]

(***************************************************************************)
(* Renderer discovery: DOCXConverter.__init__ calls _find_libreoffice,     *)
(* which probes each candidate with `<path> --version`.  DocumentConverter *)
(* constructs a DOCXConverter and BatchProcessor a DocumentConverter.      *)
(***************************************************************************)
PossiblePaths ==
    << "libreoffice", "lowriter", "/usr/bin/libreoffice", "/usr/bin/lowriter",
       "/opt/libreoffice/program/soffice",
       "C:\\Program Files\\LibreOffice\\program\\soffice.exe",
       "C:\\Program Files (x86)\\LibreOffice\\program\\soffice.exe" >>

\* what subprocess.run([path, "--version"], timeout=10) does: the process
\* exits 0, exits non-zero, is killed after the timeout (TimeoutExpired),
\* there is no such file (FileNotFoundError), or there is a file that
\* cannot be executed (PermissionError)
ProbeOutcomes == {"exit0", "nonzero", "timeout", "missing", "denied"}

\* the constructor called: BatchProcessor.__init__ calls DocumentConverter(config),
\* which calls DOCXConverter(self.config), neither inside a try
Constructors == {"BatchProcessor"}

NotFound == "LibreOffice not found"

InitProbe ==
    /\ call \in [entry : Constructors,
                 probes : [1..Len(PossiblePaths) -> ProbeOutcomes]]
    /\ pc = "probe"
    /\ cur = 1
    /\ max_workers = 1
    /\ files = <<>>
    /\ results = EmptySummary
    /\ completed_count = 0
    /\ progress_lock = "free"
    /\ submitted = 0
    /\ fut = <<>>
    /\ work_queue = <<>>
    /\ ready = 0
    /\ as_finished = {}
    /\ waiter = <<>>
    /\ yielded = {}
    /\ calls = <<>>
    /\ fs = {}
    /\ ret = NotEnded
    /\ heap = DefaultHeap
    /\ config_data = <<>>

\* the except clause of the probe: (subprocess.TimeoutExpired, FileNotFoundError)
ProbeCatches(outcome) == outcome \in {"timeout", "missing"}

\* one iteration of `for path in possible_paths`
Probe ==
    /\ pc = "probe"
    /\ cur \in 1..Len(PossiblePaths)
    /\ LET outcome == call.probes[cur]
       IN IF outcome = "exit0"
          THEN /\ ret' = [kind |-> "returned",
                          value |-> [type |-> "str", about |-> PossiblePaths[cur]]]
               /\ pc' = "done"
               /\ UNCHANGED cur
          ELSE IF outcome = "nonzero" \/ ProbeCatches(outcome)
          THEN /\ cur' = cur + 1
               /\ UNCHANGED << pc, ret >>
          ELSE /\ ret' = [kind |-> "raised",
                          value |-> Err("PermissionError", PossiblePaths[cur])]
               /\ pc' = "done"
               /\ UNCHANGED cur
    /\ UNCHANGED << config, call, max_workers, files, results, completed_count,
                    progress_lock, pool, as_finished, waiter, yielded, calls, fs >>

\* the loop ran out of candidates: raise RuntimeError("LibreOffice not found...")
ProbeNotFound ==
    /\ pc = "probe"
    /\ cur = Len(PossiblePaths) + 1
    /\ ret' = [kind |-> "raised", value |-> Err("RuntimeError", NotFound)]
    /\ pc' = "done"
    /\ UNCHANGED << config, call, max_workers, files, results, completed_count,
                    progress_lock, pool, collect, calls, fs >>

NextProbe == Probe \/ ProbeNotFound

SpecProbe == InitProbe /\ [][NextProbe]_vars

FirstExit0 ==
    LET ok == {k \in 1..Len(PossiblePaths) : call.probes[k] = "exit0"}
    IN IF ok = {} THEN 0 ELSE CHOOSE k \in ok : \A j \in ok : k <= j

\* C21: the constructor returns with the first candidate, in the listed
\* order, whose version probe exits 0, whatever the candidates before it
\* did; if no candidate exits 0 it raises RuntimeError "LibreOffice not
\* found", and no conversion was attempted.
C21_RendererDiscovery ==
    /\ pc = "probe" => \A k \in 1..(cur - 1) : call.probes[k] # "exit0"
    /\ pc = "done" =>
          /\ fut = <<>>
          /\ IF FirstExit0 # 0
             THEN Returned /\ ret.value.about = PossiblePaths[FirstExit0]
             ELSE Raised /\ ret.value = Err("RuntimeError", NotFound)

(***************************************************************************)
(* Order of collection.                                                    *)
(***************************************************************************)
\* the failure entries of the first k tasks, in the order of the file list
ErrorsOfFirst(k) ==
    LET raised == SelectSeq([i \in 1..k |-> i], LAMBDA i : fut[i].r.raised)
    IN [j \in 1..Len(raised) |->
           [file |-> files[raised[j]], error |-> fut[raised[j]].r.value]]

\* the result entries of the first k tasks, in the order of the file list
ResultsOfFirst(k) ==
    LET done == SelectSeq([i \in 1..k |-> i], LAMBDA i : ~fut[i].r.raised)
    IN [j \in 1..Len(done) |-> fut[done[j]].r.value]

\* C22: with max_workers = 1 the k-th progress callback names the k-th file
\* of the enumerated list, and the results and errors lists hold the
\* outcomes of the first tasks of the list, in the order of the list.
C22_SingleWorkerOrder ==
    (max_workers = 1 /\ pc \in {"loop", "finally", "update", "shutdown", "done"}
        /\ ret.kind \in {"running", "returned"}) =>
        /\ \A k \in 1..Len(calls) : calls[k].args.filename = Name(files[k])
        /\ LET k == results.successful + results.failed
           IN /\ results.errors = ErrorsOfFirst(k)
              /\ results.results = ResultsOfFirst(k)

(***************************************************************************)
(* Effects of an unsupported conversion.                                   *)
(***************************************************************************)
\* C23: a task whose (input extension, target format) pair is unsupported
\* leaves the file system as it was: it creates no output file and no
\* <input_stem>_images directory.
C23_UnsupportedLeavesNoTrace ==
    (pc = "routed"
       /\ RoutingTable(InputExt(files[1]), call.target_format) = "unsupported") =>
        /\ fut[1].r.raised
        /\ fut[1].r.made = {}
        /\ fs = {}

(***************************************************************************)
(* Who writes the summary.                                                 *)
(***************************************************************************)
C24_NoLostUpdate ==
    pc # "call" =>
        /\ results.successful + results.failed = Cardinality(yielded)
        /\ Len(results.results) + Len(results.errors) = Cardinality(yielded)
        /\ results.successful = Len(results.results)
        /\ results.failed = Len(results.errors)

C24_Step ==
    results' # results =>
        \/ pc = "call"
        \/ /\ pc = "loop"
           /\ pc' = "finally"
           /\ << fut, work_queue, ready >>' = << fut, work_queue, ready >>
           /\ results'.successful + results'.failed
                 = results.successful + results.failed + 1
           /\ Len(results'.results) + Len(results'.errors)
                 = Len(results.results) + Len(results.errors) + 1
           /\ SubSeq(results'.results, 1, Len(results.results)) = results.results
           /\ SubSeq(results'.errors, 1, Len(results.errors)) = results.errors

\* C24: the summary is written by one thread only: after its creation
\* every change of its counters and lists is one step of the calling
\* thread's collection loop, which appends one entry and adds one to one
\* counter while no worker step takes part; whatever number of workers have
\* finished at that moment, the summary accounts for every collected task.
C24_SummarySingleWriter == []C24_NoLostUpdate /\ [][C24_Step]_vars

\* two tasks have finished on two workers, a third is running, and one
\* outcome has been recorded
C24_Witness ==
    /\ max_workers = 2
    /\ pc = "finally"
    /\ Cardinality(Finished) = 2
    /\ Running # {}
    /\ results.successful + results.failed = 1

(***************************************************************************)
(* The counter and the summary at the time of a callback.                  *)
(***************************************************************************)
C25_CounterNearSummary ==
    pc # "call" =>
        /\ completed_count <= results.successful + results.failed
        /\ results.successful + results.failed <= completed_count + 1
        /\ Len(calls) <= completed_count

C25_Step ==
    calls' # calls =>
        LET k == calls'[Len(calls')].args.completed
        IN /\ k = completed_count'
           /\ results.successful + results.failed = k
           /\ Len(results.results) + Len(results.errors) = k
           /\ calls'[Len(calls')].args.filename = Name(files[cur])
           /\ \/ \E j \in 1..Len(results.results) :
                    results.results[j] = fut[cur].r.value
              \/ \E j \in 1..Len(results.errors) :
                    results.errors[j] = [file |-> files[cur], error |-> fut[cur].r.value]
           /\ results' = results

\* C25: when the progress callback is called with completed = k the summary
\* accounts for exactly k tasks (successful + failed = k, len(results) +
\* len(errors) = k), the task named in the callback among them; the counter
\* is never ahead of the recorded outcomes and is behind only by the task
\* whose callback is due.
C25_CallbackSeesSummary == []C25_CounterNearSummary /\ [][C25_Step]_vars

\* the second callback of a three-file batch has been made, after one
\* failure and one success
C25_Witness ==
    /\ call.has_callback
    /\ Len(files) = 3
    /\ Len(calls) = 2
    /\ pc = "loop"
    /\ results.successful = 1
    /\ results.failed = 1

(***************************************************************************)
(* A progress callback that raises.                                        *)
(***************************************************************************)
\* C26: when the progress callback has raised during a completion, the
\* call still ends by returning the summary, with every task collected and
\* recorded and the progress lock free.
C26_CallbackFailureKeepsWork ==
    /\ (pc \in {"loop", "unwind", "shutdown", "done"}) => progress_lock = "free"
    /\ (pc = "done" /\ ~NoCallbackRaised) =>
          /\ Returned
          /\ yielded = Tasks
          /\ ret.value.successful + ret.value.failed = Len(files)
          /\ Len(ret.value.results) + Len(ret.value.errors) = Len(files)

(***************************************************************************)
(* Two batches on one BatchProcessor.  The instance holds max_workers, the *)
(* converter and the progress lock; everything else is local to a call of  *)
(* _process_files_parallel, so each variable of the batch is a pair, one   *)
(* component per call.  The second call is made by a second caller thread, *)
(* or by the progress callback of the first call.                          *)
(***************************************************************************)
Batches == {1, 2}

Put(f, b, v) == [f EXCEPT ![b] = v]

\* who makes the second call
SecondCallers == {"thread", "callback"}

FirstLists == { << A_docx, A_txt >> }
SecondLists == { << Docs_b_txt >>, << Missing_docx >> }

TwoCalls ==
    { << c1, c2 >> :
        c1 \in [entry : {"convert_file_list"}, file_list : FirstLists,
                output_dir : {OutDir}, target_format : {"pdf"},
                has_callback : {TRUE}, caller : {"thread"}],
        c2 \in [entry : {"convert_file_list"}, file_list : SecondLists,
                output_dir : {OutDir}, target_format : {"pdf"},
                has_callback : BOOLEAN, caller : SecondCallers] }

InitTwo ==
    /\ call \in TwoCalls
    /\ max_workers \in 1..MaxWorkers
    /\ pc = << "call", IF call[2].caller = "thread" THEN "call" ELSE "idle" >>
    /\ files = << <<>>, <<>> >>
    /\ results = << EmptySummary, EmptySummary >>
    /\ completed_count = << 0, 0 >>
    /\ progress_lock = "free"
    /\ submitted = << 0, 0 >>
    /\ fut = << <<>>, <<>> >>
    /\ work_queue = << <<>>, <<>> >>
    /\ ready = << 0, 0 >>
    /\ as_finished = << {}, {} >>
    /\ waiter = << <<>>, <<>> >>
    /\ yielded = << {}, {} >>
    /\ cur = << 0, 0 >>
    /\ calls = << <<>>, <<>> >>
    /\ fs = {}
    /\ ret = << NotEnded, NotEnded >>
    /\ heap = DefaultHeap
    /\ config_data = <<>>

RunningTwo(b) == {i \in 1..Len(fut[b]) : fut[b][i].state = "running"}
FinishedTwo(b) == {i \in 1..Len(fut[b]) : fut[b][i].state = "finished"}

\* convert_file_list up to the submissions of _process_files_parallel (the
\* executor is created: max_workers >= 1)
ConvertFileListTwo(b) ==
    /\ pc[b] = "call"
    /\ fs' = fs \union {OutputPath(call[b].output_dir)}
    /\ files' = Put(files, b, ExistingFiles(call[b].file_list))
    /\ results' = Put(results, b, NewSummary(files'[b]))
    /\ pc' = Put(pc, b, "submit")
    /\ UNCHANGED << config, call, max_workers, completed_count, progress_lock, pool,
                    collect, calls, ret >>

\* executor.submit on the call's own executor
SubmitTwo(b) ==
    /\ pc[b] = "submit"
    /\ submitted[b] < Len(files[b])
    /\ submitted' = Put(submitted, b, submitted[b] + 1)
    /\ fut' = Put(fut, b, Append(fut[b], [state |-> "pending", r |-> NoResult]))
    /\ work_queue' = Put(work_queue, b, Append(work_queue[b], submitted[b] + 1))
    /\ ready' = IF ready[b] = 0
                   /\ ready[b] + Cardinality(RunningTwo(b)) < SpawnLimit
                THEN Put(ready, b, ready[b] + 1) ELSE ready
    /\ UNCHANGED << config, call, max_workers, pc, files, results, completed_count,
                    progress_lock, collect, calls, fs, ret >>

\* a worker of the call's executor takes the oldest queued item
WorkerTakeTwo(b) ==
    /\ ready[b] > 0
    /\ work_queue[b] # <<>>
    /\ ready' = Put(ready, b, ready[b] - 1)
    /\ fut' = Put(fut, b, [fut[b] EXCEPT ![Head(work_queue[b])].state = "running"])
    /\ work_queue' = Put(work_queue, b, Tail(work_queue[b]))
    /\ UNCHANGED << config, call, max_workers, pc, files, results, completed_count,
                    progress_lock, submitted, collect, calls, fs, ret >>

\* self.converter, shared by the two calls, converts the file
FinishTwo(b, i) ==
    /\ i \in RunningTwo(b)
    /\ \E ext \in Behaviours :
          LET r == ConvertSingleFile(files[b][i], call[b].output_dir,
                                     call[b].target_format, Meets(ext))
          IN /\ fut' = Put(fut, b, [fut[b] EXCEPT ![i] = [state |-> "finished", r |-> r]])
             /\ fs' = fs \union r.made
             /\ ready' = Put(ready, b, ReadyAfter(ready[b], r))
    /\ waiter' = IF pc[b] \in {"loop", "finally", "update", "callback"}
                 THEN Put(waiter, b, Append(waiter[b], i)) ELSE waiter
    /\ UNCHANGED << config, call, max_workers, pc, files, results, completed_count,
                    progress_lock, submitted, work_queue, as_finished,
                    yielded, cur, calls, ret >>

AsCompletedTwo(b) ==
    /\ pc[b] = "submit"
    /\ submitted[b] = Len(files[b])
    /\ as_finished' = Put(as_finished, b, FinishedTwo(b))
    /\ waiter' = Put(waiter, b, <<>>)
    /\ pc' = Put(pc, b, "loop")
    /\ UNCHANGED << config, call, max_workers, files, results, completed_count,
                    progress_lock, pool, yielded, cur, calls, fs, ret >>

\* one iteration of the call's loop up to the finally clause (every
\* exception of a task is one that `except Exception` catches)
CollectTwo(b, i) ==
    /\ pc[b] = "loop"
    /\ i \in (IF as_finished[b] \ yielded[b] # {} THEN as_finished[b] \ yielded[b]
              ELSE IF waiter[b] # <<>> THEN {Head(waiter[b])} ELSE {})
    /\ yielded' = Put(yielded, b, yielded[b] \union {i})
    /\ waiter' = IF i \in as_finished[b] THEN waiter ELSE Put(waiter, b, Tail(waiter[b]))
    /\ cur' = Put(cur, b, i)
    /\ results' = Put(results, b, Record(results[b], files[b][i], fut[b][i].r))
    /\ pc' = Put(pc, b, "finally")
    /\ UNCHANGED << config, call, max_workers, files, completed_count, progress_lock,
                    pool, as_finished, calls, fs, ret >>

\* with self._progress_lock: threading.Lock, the one lock of the instance,
\* not reentrant
UpdateProgressAcquireTwo(b) ==
    /\ pc[b] = "finally"
    /\ progress_lock = "free"
    /\ progress_lock' = "held"
    /\ pc' = Put(pc, b, "update")
    /\ UNCHANGED << config, call, max_workers, files, results, completed_count, pool,
                    collect, calls, fs, ret >>

\* the callback of the first call makes the second call, once
StartsSecond(b) ==
    b = 1 /\ call[2].caller = "callback" /\ pc[2] = "idle"

\* UpdateProgressTwo with one counter kept on the instance and shared by
\* the calls
UpdateProgressShared(b) ==
    /\ pc[b] = "update"
    /\ completed_count' = Put(completed_count, b, Increment(completed_count[1] + completed_count[2]))
    /\ calls' = IF call[b].has_callback
                THEN Put(calls, b,
                         Append(calls[b],
                                [args |-> CallbackArgs(completed_count'[b], files[b],
                                                       Name(files[b][cur[b]])),
                                 raised |-> FALSE]))
                ELSE calls
    /\ IF StartsSecond(b)
       THEN /\ pc' = << "callback", "call" >>
            /\ UNCHANGED << progress_lock, cur >>
       ELSE /\ pc' = Put(pc, b, "loop")
            /\ progress_lock' = "free"
            /\ cur' = Put(cur, b, 0)
    /\ UNCHANGED << config, call, max_workers, files, results, pool, as_finished,
                    waiter, yielded, fs, ret >>

\* completed_count += 1 and the call's callback, under the lock; a callback
\* that makes the second call is inside that call until it returns
UpdateProgressTwo(b) ==
    /\ pc[b] = "update"
    /\ completed_count' = Put(completed_count, b, Increment(completed_count[b]))
    /\ calls' = IF call[b].has_callback
                THEN Put(calls, b,
                         Append(calls[b],
                                [args |-> CallbackArgs(completed_count'[b], files[b],
                                                       Name(files[b][cur[b]])),
                                 raised |-> FALSE]))
                ELSE calls
    /\ IF StartsSecond(b)
       THEN /\ pc' = << "callback", "call" >>
            /\ UNCHANGED << progress_lock, cur >>
       ELSE /\ pc' = Put(pc, b, "loop")
            /\ progress_lock' = "free"
            /\ cur' = Put(cur, b, 0)
    /\ UNCHANGED << config, call, max_workers, files, results, pool, as_finished,
                    waiter, yielded, fs, ret >>

\* the second call has returned to the callback that made it; the callback
\* returns and the `with` block releases the lock
CallbackReturns ==
    /\ pc[1] = "callback"
    /\ pc[2] = "done"
    /\ pc' = Put(pc, 1, "loop")
    /\ progress_lock' = "free"
    /\ cur' = Put(cur, 1, 0)
    /\ UNCHANGED << config, call, max_workers, files, results, completed_count, pool,
                    as_finished, waiter, yielded, calls, fs, ret >>

LoopEndTwo(b) ==
    /\ pc[b] = "loop"
    /\ yielded[b] = 1..Len(files[b])
    /\ pc' = Put(pc, b, "shutdown")
    /\ UNCHANGED << config, call, max_workers, files, results, completed_count,
                    progress_lock, pool, collect, calls, fs, ret >>

ShutdownTwo(b) ==
    /\ pc[b] = "shutdown"
    /\ work_queue[b] = <<>>
    /\ RunningTwo(b) = {}
    /\ pc' = Put(pc, b, "done")
    /\ ret' = Put(ret, b, [kind |-> "returned", value |-> results[b]])
    /\ ready' = Put(ready, b, 0)
    /\ UNCHANGED << config, call, max_workers, files, results, completed_count,
                    progress_lock, submitted, fut, work_queue, collect, calls,
                    fs >>

NextTwo ==
    \/ \E b \in Batches : ConvertFileListTwo(b)
    \/ \E b \in Batches : SubmitTwo(b)
    \/ \E b \in Batches : WorkerTakeTwo(b)
    \/ \E b \in Batches : \E i \in 1..Len(fut[b]) : FinishTwo(b, i)
    \/ \E b \in Batches : AsCompletedTwo(b)
    \/ \E b \in Batches : \E i \in 1..Len(fut[b]) : CollectTwo(b, i)
    \/ \E b \in Batches : UpdateProgressAcquireTwo(b)
    \/ \E b \in Batches : UpdateProgressTwo(b)
    \/ CallbackReturns
    \/ \E b \in Batches : LoopEndTwo(b)
    \/ \E b \in Batches : ShutdownTwo(b)

SpecTwo == InitTwo /\ [][NextTwo]_vars

\* the threads are scheduled, conversions and callbacks that can go on do
FairSpecTwo == SpecTwo /\ WF_vars(NextTwo)


(***************************************************************************)
(* Independence of two batches on one instance.                            *)
(***************************************************************************)
BatchSummaryCovers(b, s) ==
    /\ s.total_files = Len(files[b])
    /\ s.successful + s.failed = Len(files[b])
    /\ s.successful = Len(s.results)
    /\ s.failed = Len(s.errors)
    /\ \A q \in ToSet(files[b]) :
          Cardinality({k \in 1..Len(s.results) : s.results[k].input_file = q})
            + Cardinality({k \in 1..Len(s.errors) : s.errors[k].file = q})
          = Cardinality({i \in 1..Len(files[b]) : files[b][i] = q})
    /\ \A k \in 1..Len(s.results) : s.results[k].input_file \in ToSet(files[b])
    /\ \A k \in 1..Len(s.errors) : s.errors[k].file \in ToSet(files[b])

\* C27: of two calls on one BatchProcessor each has its own counter and
\* summary: the counter of a call counts the completions of that call only,
\* its callbacks get completed = 1, 2, ... and its own total N_i, naming its
\* own files, and the summary it returns covers exactly its own files.
C27_BatchesIndependent ==
    \A b \in Batches :
        /\ pc[b] \notin {"idle", "call"} =>
              /\ files[b] = ExistingFiles(call[b].file_list)
              /\ results[b].total_files = Len(files[b])
        /\ completed_count[b] <= Len(files[b])
        /\ completed_count[b] + (IF pc[b] \in {"finally", "update"} THEN 1 ELSE 0)
              = Cardinality(yielded[b])
        /\ \A k \in 1..Len(calls[b]) :
              /\ calls[b][k].args.completed = k
              /\ calls[b][k].args.total = Len(files[b])
              /\ \E i \in 1..Len(files[b]) :
                    calls[b][k].args.filename = Name(files[b][i])
        /\ pc[b] = "done" =>
              /\ ret[b].kind = "returned"
              /\ BatchSummaryCovers(b, ret[b].value)
              /\ completed_count[b] = Len(files[b])
              /\ call[b].has_callback => Len(calls[b]) = Len(files[b])

\* two caller threads, both calls returned, two callbacks of the first and
\* one of the second
C27_Witness ==
    /\ call[2].caller = "thread"
    /\ max_workers = 2
    /\ pc = << "done", "done" >>
    /\ Len(calls[1]) = 2
    /\ Len(calls[2]) = 1
    /\ ret[1].value.total_files = 2
    /\ ret[2].value.total_files = 1


(***************************************************************************)
(* Termination of the batches.                                             *)
(***************************************************************************)
\* C28: every call ends, the call made by the progress callback of another
\* call on the same instance included: eventually both calls are done.
C28_EveryBatchTerminates == <>(pc = << "done", "done" >>)


(***************************************************************************)
(* What file discovery returns.                                            *)
(***************************************************************************)
\* C29: every enumerated path is a regular file: a directory whose name
\* matches a pattern is not among the tasks and not counted in total_files.
C29_OnlyRegularFiles ==
    (DirectoryCall /\ pc # "call") =>
        /\ \A i \in 1..Len(files) : files[i] \in RegularFiles
        /\ \A i \in 1..Len(files) : files[i] \notin Directories
        /\ results.total_files <=
              Cardinality({p \in RegularFiles : IsPrefix(call.input_dir, p.parent)})


(***************************************************************************)
(* Config instances: construction, set, load_from_file, get.  A dotted key *)
(* is the sequence of its parts.                                           *)
(***************************************************************************)
MaxConfigs == 2      \* most Config instances constructed

\* dict.copy(): a new dict with the same entries, the values not copied
Copy(h, d) == Append(h, h[d])

\* Config.get(key): the value reached, or the default None (Absent) on
\* KeyError or TypeError
RECURSIVE Get(_, _, _)
Get(h, d, keys) ==
    LET value == h[d][Head(keys)]
    IN IF Len(keys) = 1 THEN value
       ELSE IF value.kind = "dict" THEN Get(h, value.v, Tail(keys))
       ELSE Absent

\* Config.set(key, value) on the dict d: the heap afterwards (left as it is
\* when an int stands where a dict is needed: TypeError)
RECURSIVE Set(_, _, _, _)
Set(h, d, keys, value) ==
    LET k == Head(keys)
    IN IF Len(keys) = 1 THEN [h EXCEPT ![d][k] = IntValue(value)]
       ELSE IF h[d][k].kind = "absent"
       THEN Set(Append([h EXCEPT ![d][k] = DictRef(Len(h) + 1)], EmptyDict),
                Len(h) + 1, Tail(keys), value)
       ELSE IF h[d][k].kind = "dict" THEN Set(h, h[d][k].v, Tail(keys), value)
       ELSE h

\* a YAML file {section: {leaf: value}}
UserConfigs ==
    { [section |-> "output", leaf |-> "image_dpi", value |-> 300],
      [section |-> "custom", leaf |-> "flag", value |-> 300] }

\* Config._merge_config(base, override) with override = the parsed file
MergeConfig(h, base, user_config) ==
    IF h[base][user_config.section].kind = "dict"
    THEN [h EXCEPT ![h[base][user_config.section].v][user_config.leaf] =
                       IntValue(user_config.value)]
    ELSE Append([h EXCEPT ![base][user_config.section] = DictRef(Len(h) + 1)],
                [EmptyDict EXCEPT ![user_config.leaf] = IntValue(user_config.value)])

\* the keys and values given to set
SetKeys ==
    { << "output", "image_dpi" >>, << "conversion", "max_workers" >>,
      << "custom", "flag" >> }
SetValues == {2, 300}

\* the keys read with get
GetKeys == SetKeys \union { << "output", "flag" >>, << "custom", "image_dpi" >> }

NoUserConfig == [section |-> "", leaf |-> "", value |-> 0]

ConfigCall(entry, instance, key, value, user_config) ==
    [entry |-> entry, instance |-> instance, key |-> key, value |-> value,
     user_config |-> user_config]

InitConfig ==
    /\ heap = DefaultHeap
    /\ config_data = <<>>
    /\ call = ConfigCall("none", 0, <<>>, 0, NoUserConfig)
    /\ pc = "config"
    /\ max_workers = 1
    /\ files = <<>>
    /\ results = EmptySummary
    /\ completed_count = 0
    /\ progress_lock = "free"
    /\ submitted = 0
    /\ fut = <<>>
    /\ work_queue = <<>>
    /\ ready = 0
    /\ as_finished = {}
    /\ waiter = <<>>
    /\ yielded = {}
    /\ cur = 0
    /\ calls = <<>>
    /\ fs = {}
    /\ ret = NotEnded

\* Config(): self.config_data = self.DEFAULT_CONFIG.copy()
ConfigNew ==
    /\ pc = "config"
    /\ Len(config_data) < MaxConfigs
    /\ heap' = Copy(heap, DEFAULT_CONFIG)
    /\ config_data' = Append(config_data, Len(heap) + 1)
    /\ call' = ConfigCall("Config", Len(config_data) + 1, <<>>, 0, NoUserConfig)
    /\ UNCHANGED << max_workers, pc, files, results, completed_count,
                    progress_lock, pool, collect, calls, fs, ret >>

\* Config(config_path): the copy, then load_from_file(config_path)
ConfigFromFile ==
    /\ pc = "config"
    /\ Len(config_data) < MaxConfigs
    /\ \E user_config \in UserConfigs :
          /\ heap' = MergeConfig(Copy(heap, DEFAULT_CONFIG), Len(heap) + 1, user_config)
          /\ call' = ConfigCall("Config", Len(config_data) + 1, <<>>, 0, user_config)
    /\ config_data' = Append(config_data, Len(heap) + 1)
    /\ UNCHANGED << max_workers, pc, files, results, completed_count,
                    progress_lock, pool, collect, calls, fs, ret >>

\* config.set(key, value) on the instance i
ConfigSet(i) ==
    /\ pc = "config"
    /\ \E key \in SetKeys, value \in SetValues :
          /\ heap' = Set(heap, config_data[i], key, value)
          /\ call' = ConfigCall("set", i, key, value, NoUserConfig)
    /\ UNCHANGED << config_data, max_workers, pc, files, results,
                    completed_count, progress_lock, pool, collect, calls, fs,
                    ret >>

\* config.load_from_file(config_path) on the instance i
ConfigLoadFromFile(i) ==
    /\ pc = "config"
    /\ \E user_config \in UserConfigs :
          /\ heap' = MergeConfig(heap, config_data[i], user_config)
          /\ call' = ConfigCall("load_from_file", i, <<>>, 0, user_config)
    /\ UNCHANGED << config_data, max_workers, pc, files, results,
                    completed_count, progress_lock, pool, collect, calls, fs,
                    ret >>

NextConfig ==
    \/ ConfigNew
    \/ ConfigFromFile
    \/ \E i \in 1..Len(config_data) : ConfigSet(i)
    \/ \E i \in 1..Len(config_data) : ConfigLoadFromFile(i)

SpecConfig == InitConfig /\ [][NextConfig]_vars

DefaultsIntact ==
    \A key \in GetKeys :
        Get(heap, DEFAULT_CONFIG, key) = Get(DefaultHeap, DEFAULT_CONFIG, key)

C30_Step ==
    /\ \A j \in 1..Len(config_data) :
          j # call'.instance =>
             \A key \in GetKeys :
                Get(heap', config_data[j], key) = Get(heap, config_data[j], key)
    /\ (call'.entry = "Config" /\ call'.user_config = NoUserConfig) =>
          \A key \in GetKeys :
             Get(heap', config_data'[call'.instance], key)
                = Get(DefaultHeap, DEFAULT_CONFIG, key)
    /\ call'.entry = "set" =>
          /\ Get(heap', config_data[call'.instance], call'.key) = IntValue(call'.value)
          /\ \A key \in GetKeys \ {call'.key} :
                Get(heap', config_data[call'.instance], key)
                   = Get(heap, config_data[call'.instance], key)

\* C30: whatever set and load_from_file calls are made on one Config,
\* Config.DEFAULT_CONFIG keeps its values, every other instance answers get
\* as before and an instance constructed without a file answers with the
\* defaults; on the instance itself get(k) after set(k, v) gives v and the
\* other keys keep their values.
C30_ConfigIsolated == []DefaultsIntact /\ [][C30_Step]_vars

=============================================================================
